---------------------------- MODULE Spec2Model ----------------------------
(***************************************************************************)
(* Model of the multiplayer room coordinator of src/server.js: the         *)
(* socket.io "connection" block (rooms Map, createRoom, joinRoom,          *)
(* startGame, scoreUpdate, gameFinished, disconnect) and generateRoomId.   *)
(*                                                                         *)
(* Node runs every handler to completion on one event loop, so each        *)
(* handler is one atomic action.                                           *)
(*                                                                         *)
(* The user-visible strings of the source are Polish; they are written     *)
(* here without diacritics ("Pokoj jest pelny" for "Pokój jest pełny").    *)
(***************************************************************************)
EXTENDS Integers, Sequences, FiniteSets, TLC

(***************************************************************************)
(* Bounds of the model.                                                    *)
(***************************************************************************)
\* Number of sockets that ever connect (socket ids 1..MaxConns, never reused).
MaxConns == 3
\* Number of distinct room ids generateRoomId can return.
MaxCodes == 1
\* Scores reported by clients range over 0..MaxScore.
MaxScore == 1
\* Elapsed times reported by clients range over 0..MaxTime.
MaxTime == 0
\* Date.now() ranges over 0..MaxClock where the clock moves.
MaxClock == 1

Conns == 1..MaxConns
Codes == 1..MaxCodes
Scores == 0..MaxScore
Times == 0..MaxTime
\* Team names typed by the users (the client's two defaults).
TeamNames == {"Zespol 1", "Zespol 2"}

\* Inputs of the adjudication runs: the small range plus the values of the
\* documented examples (10,120,8,90), (10,120,10,90), (10,100,10,100), (8,100,10,90).
AdjScores == Scores \cup {8, 10}
AdjTimes == Times \cup {90, 100, 120}
\* Inputs of the two runs compared for the order of the finish reports: the
\* scores of the range and two elapsed times, so that times tie or differ.
OrderScores == Scores
OrderTimes == {0, 90}

\* JavaScript null (guest: null) and an absent payload (emit with no argument).
Null == [null |-> TRUE]
\* finishTimestamp: null
NoTimestamp == -1

VARIABLES
    rooms,       \* const rooms = new Map(): room id -> room, DOMAIN = keys
    roomOrder,   \* insertion order of the keys of the Map (rooms.entries())
    joined,      \* socket.io adapter: room id -> sockets that did socket.join(roomId)
    connected,   \* sockets currently connected
    nextId,      \* id the next connecting socket gets
    now,         \* last value Date.now() returned
    lastEvent,   \* the inbound event the last handler processed
    out,         \* what the last handler emitted, in order
    state,       \* game.js: const state = { ... } of one client
    screen,      \* game.js: the screen of that client carrying the class "active"
    timeouts,    \* game.js: pending setTimeout(() => endGame(true), 1500)
    game         \* that client's multiplayer game: whether a gameStart was received,
                 \* and the gameFinished events emitted since the last one

\* The variables of the client.
clientVars == <<state, screen, timeouts, game>>

\* The variables of the server.
serverVars == <<rooms, roomOrder, joined, connected, nextId, now, lastEvent, out>>

vars == <<rooms, roomOrder, joined, connected, nextId, now, lastEvent, out,
          state, screen, timeouts, game>>

(***************************************************************************)
(* The client after the page has loaded (game.js:3-23): the state object   *)
(* as declared, the start screen active, nothing scheduled.                *)
(***************************************************************************)
\* 10 * 60 seconds on the clock of a game, scaled down.
MaxSeconds == 2

\* roomId: null
NoRoom == 0

PageLoaded ==
    /\ state = [mode |-> "solo", score |-> 0, timerSeconds |-> MaxSeconds,
                timerId |-> FALSE, finished |-> FALSE, socket |-> FALSE,
                roomId |-> NoRoom]
    /\ screen = "screen-start"
    /\ timeouts = 0
    /\ game = [started |-> FALSE, gameFinished |-> 0]

(***************************************************************************)
(* Emission.  An emission names the sockets it reaches.                    *)
(***************************************************************************)
Emit(to, ev, data) == [to |-> to, ev |-> ev, data |-> data]

\* A notification that is lost.
ToSocketNobody(id, conn) == {}

\* A notification broadcast to every connected socket instead of one.
ToSocketEveryone(id, conn) == conn

\* io.to(id): every socket is in the room named by its own id while connected.
ToSocket(id, conn) == {id} \cap conn

EveryoneConnected(c) == connected

\* socket.emit(...): to the socket whose handler is running
Requester(c) == {c}

\* io.to(roomId): the sockets that joined the socket.io room roomId.
ToRoom(roomId) == joined[roomId]

(***************************************************************************)
(* Players and rooms.                                                      *)
(***************************************************************************)
NewPlayer(id, teamName) ==
    [id |-> id, teamName |-> teamName, score |-> 0, time |-> 0,
     finished |-> FALSE, finishTimestamp |-> NoTimestamp]

\* A room stored as already started.
NewRoomStarted(id, teamName) ==
    [host |-> NewPlayer(id, teamName), guest |-> Null, started |-> TRUE]

NewRoom(id, teamName) ==
    [host |-> NewPlayer(id, teamName), guest |-> Null, started |-> FALSE]

\* generateRoomId(): any id of the code space, with no look at the Map.
GenerateRoomId == Codes

\* rooms.set(roomId, room)
MapSet(m, k, v) == [x \in DOMAIN m \cup {k} |-> IF x = k THEN v ELSE m[x]]

\* rooms.delete(roomId)
MapDelete(m, k) == [x \in DOMAIN m \ {k} |-> m[x]]

OrderSet(o, k) == IF \E i \in 1..Len(o) : o[i] = k THEN o ELSE Append(o, k)

OrderDelete(o, k) == SelectSeq(o, LAMBDA x : x # k)

IsHost(room, c) == room.host.id = c

IsGuest(room, c) == room.guest # Null /\ room.guest.id = c


(***************************************************************************)
(* Initial state: the server is listening, no socket has connected.        *)
(***************************************************************************)
Init ==
    /\ rooms = <<>>
    /\ roomOrder = <<>>
    /\ joined = [r \in Codes |-> {}]
    /\ connected = {}
    /\ nextId = 1
    /\ now = 0
    /\ lastEvent = [type |-> "listen"]
    /\ out = <<>>
    /\ PageLoaded

\* The emissions of a handler, in the order it makes them.
Send(msgs) == out' = msgs

(***************************************************************************)
(* io.on("connection", socket): a new socket with a fresh id.              *)
(***************************************************************************)
Connection ==
    /\ nextId <= MaxConns
    /\ connected' = connected \cup {nextId}
    /\ nextId' = nextId + 1
    /\ lastEvent' = [type |-> "connection", from |-> nextId]
    /\ Send(<<>>)
    /\ UNCHANGED <<rooms, roomOrder, joined, now>>
    /\ UNCHANGED clientVars

(***************************************************************************)
(* socket.on("createRoom", ({ teamName }) => ...)                          *)
(***************************************************************************)
\* The handler, with generateRoomId() returning an id of the set ids.
CreateRoomIn(c, teamName, ids) ==
    /\ c \in connected
    /\ \E roomId \in ids :
        /\ rooms' = MapSet(rooms, roomId, NewRoom(c, teamName))
        /\ roomOrder' = OrderSet(roomOrder, roomId)
        /\ joined' = [joined EXCEPT ![roomId] = @ \cup {c}]
        /\ Send(<<Emit(Requester(c), "roomCreated", [roomId |-> roomId])>>)
    /\ lastEvent' = [type |-> "createRoom", from |-> c, teamName |-> teamName]
    /\ UNCHANGED <<connected, nextId, now>>
    /\ UNCHANGED clientVars

CreateRoom(c, teamName) == CreateRoomIn(c, teamName, GenerateRoomId)

(***************************************************************************)
(* socket.on("joinRoom", ({ roomId, teamName }) => ...)                    *)
(***************************************************************************)
\* if (!room)
RoomMissing(roomId) == roomId \notin DOMAIN rooms

GuestSeatTakenNever(room) == FALSE

\* if (room.guest)
GuestSeatTaken(room) == room.guest # Null

\* socket.emit("error", { message: "Pokój nie istnieje" })
RoomNotFoundMessage == "Pokoj nie istnieje"

\* socket.emit("error", { message: "Pokój jest pełny" })
RoomFullMessage == "Pokoj jest pelny"

JoinedMessagesNameFirst(c, roomId, room, teamName) ==
    <<Emit(Requester(c), "opponentJoined", [opponentName |-> room.host.teamName]),
      Emit(ToSocket(room.host.id, connected), "opponentJoined",
           [opponentName |-> teamName]),
      Emit(Requester(c), "roomJoined", [roomId |-> roomId])>>

\* socket.emit("roomJoined", { roomId });
\* io.to(room.host.id).emit("opponentJoined", { opponentName: teamName });
\* socket.emit("opponentJoined", { opponentName: room.host.teamName });
JoinedMessages(c, roomId, room, teamName) ==
    <<Emit(Requester(c), "roomJoined", [roomId |-> roomId]),
      Emit(ToSocket(room.host.id, connected), "opponentJoined",
           [opponentName |-> teamName]),
      Emit(Requester(c), "opponentJoined", [opponentName |-> room.host.teamName])>>

JoinRoom(c, roomId, teamName) ==
    /\ c \in connected
    /\ lastEvent' = [type |-> "joinRoom", from |-> c, roomId |-> roomId,
                     teamName |-> teamName]
    /\ IF RoomMissing(roomId)
       THEN /\ Send(<<Emit(Requester(c), "error", [message |-> RoomNotFoundMessage])>>)
            /\ UNCHANGED <<rooms, joined>>
       ELSE IF GuestSeatTaken(rooms[roomId])
       THEN /\ Send(<<Emit(Requester(c), "error", [message |-> RoomFullMessage])>>)
            /\ UNCHANGED <<rooms, joined>>
       ELSE LET room == rooms[roomId] IN
            /\ rooms' = [rooms EXCEPT ![roomId].guest = NewPlayer(c, teamName)]
            /\ joined' = [joined EXCEPT ![roomId] = @ \cup {c}]
            /\ Send(JoinedMessages(c, roomId, room, teamName))
    /\ UNCHANGED <<roomOrder, connected, nextId, now>>
    /\ UNCHANGED clientVars

(***************************************************************************)
(* socket.on("startGame", ({ roomId }) => ...)                             *)
(***************************************************************************)
\* The host check forgotten: anybody may start.
NotTheHostNever(room, c) == FALSE

\* room.host.id !== socket.id
NotTheHost(room, c) == ~IsHost(room, c)

\* The guest check forgotten: a room starts with an empty guest seat.
GuestMissingNever(room) == FALSE

\* !room.guest
GuestMissing(room) == room.guest = Null

WaitForOpponentMessage == "Czekaj na przeciwnika"

StartGame(c, roomId) ==
    /\ c \in connected
    /\ lastEvent' = [type |-> "startGame", from |-> c, roomId |-> roomId]
    /\ IF RoomMissing(roomId) \/ NotTheHost(rooms[roomId], c)
       THEN /\ Send(<<>>)
            /\ UNCHANGED rooms
       ELSE IF GuestMissing(rooms[roomId])
       THEN /\ Send(<<Emit(Requester(c), "error", [message |-> WaitForOpponentMessage])>>)
            /\ UNCHANGED rooms
       ELSE /\ rooms' = [rooms EXCEPT ![roomId].started = TRUE]
            /\ Send(<<Emit(ToRoom(roomId), "gameStart", Null)>>)
    /\ UNCHANGED <<roomOrder, joined, connected, nextId, now>>
    /\ UNCHANGED clientVars

(***************************************************************************)
(* socket.on("scoreUpdate", ({ roomId, score }) => ...)                    *)
(***************************************************************************)
\* An event on an unknown room answered with an error to everybody.
DroppedLoudly ==
    /\ Send(<<Emit(connected, "error", [message |-> "Pokoj nie istnieje"])>>)
    /\ UNCHANGED rooms

\* if (!room) return;
Dropped ==
    /\ Send(<<>>)
    /\ UNCHANGED rooms

ScoreUpdate(c, roomId, score) ==
    /\ c \in connected
    /\ lastEvent' = [type |-> "scoreUpdate", from |-> c, roomId |-> roomId,
                     score |-> score]
    /\ IF RoomMissing(roomId)
       THEN Dropped
       ELSE LET room == rooms[roomId] IN
            IF IsHost(room, c)
            THEN /\ rooms' = [rooms EXCEPT ![roomId].host.score = score]
                 /\ Send(IF room.guest # Null
                         THEN <<Emit(ToSocket(room.guest.id, connected),
                                     "opponentUpdate", [score |-> score])>>
                         ELSE <<>>)
            ELSE IF IsGuest(room, c)
            THEN /\ rooms' = [rooms EXCEPT ![roomId].guest.score = score]
                 /\ Send(<<Emit(ToSocket(room.host.id, connected),
                                "opponentUpdate", [score |-> score])>>)
            ELSE /\ Send(<<>>)
                 /\ UNCHANGED rooms
    /\ UNCHANGED <<roomOrder, joined, connected, nextId, now>>
    /\ UNCHANGED clientVars

(***************************************************************************)
(* socket.on("gameFinished", ({ roomId, teamName, score, time }) => ...)   *)
(***************************************************************************)
\* The time comparison the wrong way round: the slower seat wins.
DecideWinnerSlower(hostScore, hostTime, guestScore, guestTime) ==
    IF hostScore > guestScore
    THEN [winner |-> "host", reason |-> "Wiecej punktow"]
    ELSE IF guestScore > hostScore
    THEN [winner |-> "guest", reason |-> "Wiecej punktow"]
    ELSE IF hostTime > guestTime
    THEN [winner |-> "host", reason |-> "Rowne punkty, szybszy czas"]
    ELSE IF guestTime > hostTime
    THEN [winner |-> "guest", reason |-> "Rowne punkty, szybszy czas"]
    ELSE [winner |-> "draw", reason |-> "Pelny remis"]

\* The time tie-break left out: equal scores are a draw.
DecideWinnerScoreOnly(hostScore, hostTime, guestScore, guestTime) ==
    IF hostScore > guestScore
    THEN [winner |-> "host", reason |-> "Wiecej punktow"]
    ELSE IF guestScore > hostScore
    THEN [winner |-> "guest", reason |-> "Wiecej punktow"]
    ELSE [winner |-> "draw", reason |-> "Pelny remis"]

\* The winner decision on the stored scores and times.
DecideWinner(hostScore, hostTime, guestScore, guestTime) ==
    IF hostScore > guestScore
    THEN [winner |-> "host", reason |-> "Wiecej punktow"]
    ELSE IF guestScore > hostScore
    THEN [winner |-> "guest", reason |-> "Wiecej punktow"]
    ELSE IF hostTime < guestTime
    THEN [winner |-> "host", reason |-> "Rowne punkty, szybszy czas"]
    ELSE IF guestTime < hostTime
    THEN [winner |-> "guest", reason |-> "Rowne punkty, szybszy czas"]
    ELSE [winner |-> "draw", reason |-> "Pelny remis"]

\* finishTimestamp used as the last tie-break: the seat that reported first wins.
DecisionFirstReport(room) ==
    LET d == DecideWinner(room.host.score, room.host.time,
                          room.guest.score, room.guest.time)
    IN  IF d.winner # "draw" \/ room.host.finishTimestamp = room.guest.finishTimestamp
        THEN d
        ELSE IF room.host.finishTimestamp < room.guest.finishTimestamp
        THEN [winner |-> "host", reason |-> "Rowne punkty, szybszy czas"]
        ELSE [winner |-> "guest", reason |-> "Rowne punkty, szybszy czas"]

Decision(room) ==
    DecideWinner(room.host.score, room.host.time, room.guest.score, room.guest.time)

\* const hostResult = {...}
HostResult(room) ==
    [myScore |-> room.host.score, myTime |-> room.host.time,
     opponentScore |-> room.guest.score, opponentTime |-> room.guest.time,
     opponentName |-> room.guest.teamName,
     isWinner |-> Decision(room).winner = "host",
     isDraw |-> Decision(room).winner = "draw",
     reason |-> Decision(room).reason]

\* hostResult copied for the guest with only isWinner changed.
GuestResultCopied(room) ==
    [myScore |-> room.host.score, myTime |-> room.host.time,
     opponentScore |-> room.guest.score, opponentTime |-> room.guest.time,
     opponentName |-> room.guest.teamName,
     isWinner |-> Decision(room).winner = "guest",
     isDraw |-> Decision(room).winner = "draw",
     reason |-> Decision(room).reason]

\* const guestResult = {...}
GuestResult(room) ==
    [myScore |-> room.guest.score, myTime |-> room.guest.time,
     opponentScore |-> room.host.score, opponentTime |-> room.host.time,
     opponentName |-> room.host.teamName,
     isWinner |-> Decision(room).winner = "guest",
     isDraw |-> Decision(room).winner = "draw",
     reason |-> Decision(room).reason]

\* The score added to the stored one instead of replacing it.
FinishAccumulate(player, teamName, score, time, finishTime) ==
    [player EXCEPT !.score = @ + score, !.time = time, !.finished = TRUE,
                   !.finishTimestamp = finishTime, !.teamName = teamName]

\* The flag toggled instead of set: a repeated report clears it.
FinishToggle(player, teamName, score, time, finishTime) ==
    [player EXCEPT !.score = score, !.time = time, !.finished = ~@,
                   !.finishTimestamp = finishTime, !.teamName = teamName]

\* Zapisz wynik gracza
Finish(player, teamName, score, time, finishTime) ==
    [player EXCEPT !.score = score, !.time = time, !.finished = TRUE,
                   !.finishTimestamp = finishTime, !.teamName = teamName]

\* The report written to the host seat whoever sends it.
RecordFinishHost(room, c, teamName, score, time, finishTime) ==
    [room EXCEPT !.host = Finish(@, teamName, score, time, finishTime)]

RecordFinish(room, c, teamName, score, time, finishTime) ==
    IF IsHost(room, c)
    THEN [room EXCEPT !.host = Finish(@, teamName, score, time, finishTime)]
    ELSE IF IsGuest(room, c)
    THEN [room EXCEPT !.guest = Finish(@, teamName, score, time, finishTime)]
    ELSE room

\* const bothFinished = room.host.finished && room.guest && room.guest.finished
BothFinished(room) ==
    room.host.finished /\ room.guest # Null /\ room.guest.finished

GameFinished(c, roomId, teamName, score, time) ==
    /\ c \in connected
    /\ lastEvent' = [type |-> "gameFinished", from |-> c, roomId |-> roomId,
                     teamName |-> teamName, score |-> score, time |-> time]
    /\ IF RoomMissing(roomId)
       THEN Dropped
       ELSE LET finishTime == now
                room == RecordFinish(rooms[roomId], c, teamName, score, time, finishTime)
                opponent == IF IsHost(room, c) THEN room.guest ELSE room.host
            IN
            /\ rooms' = [rooms EXCEPT ![roomId] = room]
            /\ IF BothFinished(room)
               THEN Send(<<Emit(ToSocket(room.host.id, connected), "gameResult",
                                HostResult(room)),
                           Emit(ToSocket(room.guest.id, connected), "gameResult",
                                GuestResult(room))>>)
               ELSE IF opponent # Null
               THEN Send(<<Emit(ToSocket(opponent.id, connected), "opponentFinished",
                                [teamName |-> teamName, score |-> score,
                                 time |-> time, waiting |-> TRUE])>>)
               ELSE Send(<<>>)
    /\ UNCHANGED <<roomOrder, joined, connected, nextId, now>>
    /\ UNCHANGED clientVars

(***************************************************************************)
(* socket.on("disconnect", () => ...)                                      *)
(* socket.io has taken the socket out of every room, its own included,     *)
(* before the handler runs.                                                *)
(***************************************************************************)
\* for (const [roomId, room] of rooms.entries()): the positions that match
Matching(c) ==
    {i \in 1..Len(roomOrder) :
        IsHost(rooms[roomOrder[i]], c) \/ IsGuest(rooms[roomOrder[i]], c)}

\* ... break: only the first one is handled
FirstMatching(c) == CHOOSE i \in Matching(c) : \A j \in Matching(c) : i <= j

Disconnect(c) ==
    /\ c \in connected
    /\ connected' = connected \ {c}
    /\ joined' = [r \in DOMAIN joined |-> joined[r] \ {c}]
    /\ lastEvent' = [type |-> "disconnect", from |-> c]
    /\ IF Matching(c) = {}
       THEN /\ Send(<<>>)
            /\ UNCHANGED <<rooms, roomOrder>>
       ELSE LET roomId == roomOrder[FirstMatching(c)]
                room == rooms[roomId]
            IN
            IF IsHost(room, c)
            THEN /\ Send(IF room.guest # Null
                         THEN <<Emit(ToSocket(room.guest.id, connected'),
                                     "hostDisconnected", Null)>>
                         ELSE <<>>)
                 /\ rooms' = MapDelete(rooms, roomId)
                 /\ roomOrder' = OrderDelete(roomOrder, roomId)
            ELSE /\ rooms' = [rooms EXCEPT ![roomId].guest = Null]
                 /\ Send(<<Emit(ToSocket(room.host.id, connected'),
                                "opponentLeft", Null)>>)
                 /\ UNCHANGED roomOrder
    /\ UNCHANGED <<nextId, now>>
    /\ UNCHANGED clientVars

(***************************************************************************)
(* Date.now() moves on between two handlers.                               *)
(***************************************************************************)
Tick ==
    /\ now < MaxClock
    /\ now' = now + 1
    /\ lastEvent' = [type |-> "tick"]
    /\ Send(<<>>)
    /\ UNCHANGED <<rooms, roomOrder, joined, connected, nextId>>
    /\ UNCHANGED clientVars

(***************************************************************************)
(* The coordinator: any connected socket may send any event at any time.   *)
(* finishTimestamp is written and never read by the server, so Spec keeps  *)
(* the clock still; SpecOrder lets it move.                                *)
(***************************************************************************)
Next ==
    \/ Connection
    \/ \E c \in Conns, n \in TeamNames : CreateRoom(c, n)
    \/ \E c \in Conns, r \in Codes, n \in TeamNames : JoinRoom(c, r, n)
    \/ \E c \in Conns, r \in Codes : StartGame(c, r)
    \/ \E c \in Conns, r \in Codes, s \in Scores : ScoreUpdate(c, r, s)
    \/ \E c \in Conns, r \in Codes, n \in TeamNames, s \in Scores, t \in Times :
          GameFinished(c, r, n, s, t)
    \/ \E c \in Conns : Disconnect(c)

Spec == Init /\ [][Next]_vars

(***************************************************************************)
(* SpecAdj: adjudication on its own.  One room, created by socket 1,       *)
(* joined by socket 2 and started; both seats report finishes with scores  *)
(* and times of AdjScores and AdjTimes.                                    *)
(***************************************************************************)
StartedRoom(hostId, hostName, guestId, guestName) ==
    [host |-> NewPlayer(hostId, hostName), guest |-> NewPlayer(guestId, guestName),
     started |-> TRUE]

InitAdj ==
    /\ rooms = [r \in {1} |-> StartedRoom(1, "Zespol 1", 2, "Zespol 2")]
    /\ roomOrder = <<1>>
    /\ joined = [r \in Codes |-> IF r = 1 THEN {1, 2} ELSE {}]
    /\ connected = {1, 2}
    /\ nextId = 3
    /\ now = 0
    /\ lastEvent = [type |-> "startGame", from |-> 1, roomId |-> 1]
    /\ out = <<Emit({1, 2}, "gameStart", Null)>>
    /\ PageLoaded

NextAdj ==
    \E c \in {1, 2}, n \in TeamNames, s \in AdjScores, t \in AdjTimes :
        GameFinished(c, 1, n, s, t)

SpecAdj == InitAdj /\ [][NextAdj]_vars

(***************************************************************************)
(* SpecOrder: two matches side by side.  Room 1 (sockets 1 and 2) and room *)
(* 2 (sockets 3 and 4) are started; the seats report finishes in any order *)
(* while the clock moves.                                                  *)
(***************************************************************************)
InitOrder ==
    /\ rooms = [r \in {1, 2} |->
                  IF r = 1 THEN StartedRoom(1, "Zespol 1", 2, "Zespol 2")
                  ELSE StartedRoom(3, "Zespol 1", 4, "Zespol 2")]
    /\ roomOrder = <<1, 2>>
    /\ joined = [r \in {1, 2} |-> IF r = 1 THEN {1, 2} ELSE {3, 4}]
    /\ connected = {1, 2, 3, 4}
    /\ nextId = 5
    /\ now = 0
    /\ lastEvent = [type |-> "startGame", from |-> 3, roomId |-> 2]
    /\ out = <<Emit({3, 4}, "gameStart", Null)>>
    /\ PageLoaded

SeatName(c) == IF c \in {1, 3} THEN "Zespol 1" ELSE "Zespol 2"

NextOrder ==
    \/ Tick
    \/ \E c \in {1, 2}, s \in OrderScores, t \in OrderTimes :
          GameFinished(c, 1, SeatName(c), s, t)
    \/ \E c \in {3, 4}, s \in OrderScores, t \in OrderTimes :
          GameFinished(c, 2, SeatName(c), s, t)

SpecOrder == InitOrder /\ [][NextOrder]_vars

(***************************************************************************)
(* SpecLobby: the lobby with more than one room.  generateRoomId draws     *)
(* from one id more than in Spec, so that rooms exist side by side;        *)
(* sockets connect, create, join, start and disconnect.  No scores are     *)
(* reported.                                                               *)
(***************************************************************************)
LobbyCodes == 1..(MaxCodes + 1)
LobbyNames == {"Zespol 1"}

InitLobby ==
    /\ rooms = <<>>
    /\ roomOrder = <<>>
    /\ joined = [r \in LobbyCodes |-> {}]
    /\ connected = {}
    /\ nextId = 1
    /\ now = 0
    /\ lastEvent = [type |-> "listen"]
    /\ out = <<>>
    /\ PageLoaded

NextLobby ==
    \/ Connection
    \/ \E c \in Conns, n \in LobbyNames : CreateRoomIn(c, n, LobbyCodes)
    \/ \E c \in Conns, r \in LobbyCodes, n \in LobbyNames : JoinRoom(c, r, n)
    \/ \E c \in Conns, r \in LobbyCodes : StartGame(c, r)
    \/ \E c \in Conns : Disconnect(c)

SpecLobby == InitLobby /\ [][NextLobby]_vars

(***************************************************************************)
(* SpecReuse: a code used again.  Socket 1 created room 1, socket 2 joined *)
(* it and socket 1 disconnected: the room is deleted, socket 2 is still    *)
(* connected and was never taken out of the socket.io room "1" (the server *)
(* never calls socket.leave).  Sockets 3 and 4 have connected.  The three  *)
(* connected sockets create, join and start rooms.                         *)
(***************************************************************************)
InitReuse ==
    /\ rooms = <<>>
    /\ roomOrder = <<>>
    /\ joined = [r \in Codes |-> IF r = 1 THEN {2} ELSE {}]
    /\ connected = {2, 3, 4}
    /\ nextId = 5
    /\ now = 0
    /\ lastEvent = [type |-> "connection", from |-> 4]
    /\ out = <<>>
    /\ PageLoaded

NextReuse ==
    \/ \E c \in {2, 3, 4}, n \in TeamNames : CreateRoom(c, n)
    \/ \E c \in {2, 3, 4}, r \in Codes, n \in TeamNames : JoinRoom(c, r, n)
    \/ \E c \in {2, 3, 4}, r \in Codes : StartGame(c, r)

SpecReuse == InitReuse /\ [][NextReuse]_vars

(***************************************************************************)
(* SpecRooms: two rooms side by side.  Socket 1 created room 1, socket 2   *)
(* joined it and socket 1 disconnected, which deleted the room; socket 2   *)
(* then created room 2, and socket 3 created a room for which              *)
(* generateRoomId returned 1 again.  Socket 4 has connected.  Socket 2 is  *)
(* still in the socket.io room "1".  The three sockets join and start the  *)
(* two rooms, report scores and finishes, and disconnect.                  *)
(***************************************************************************)
\* The one score reported in these runs.
RoomsScores == {MaxScore}

InitRooms ==
    /\ rooms = [r \in {1, 2} |-> IF r = 1 THEN NewRoom(3, "Zespol 1")
                                           ELSE NewRoom(2, "Zespol 1")]
    /\ roomOrder = <<2, 1>>
    /\ joined = [r \in LobbyCodes |-> IF r = 1 THEN {2, 3}
                                      ELSE IF r = 2 THEN {2} ELSE {}]
    /\ connected = {2, 3, 4}
    /\ nextId = 5
    /\ now = 0
    /\ lastEvent = [type |-> "connection", from |-> 4]
    /\ out = <<>>
    /\ PageLoaded

NextRooms ==
    \/ \E c \in {2, 3, 4}, r \in LobbyCodes, n \in LobbyNames : JoinRoom(c, r, n)
    \/ \E c \in {2, 3, 4}, r \in LobbyCodes : StartGame(c, r)
    \/ \E c \in {2, 3, 4}, r \in LobbyCodes, s \in RoomsScores : ScoreUpdate(c, r, s)
    \/ \E c \in {2, 3, 4}, r \in LobbyCodes, n \in LobbyNames, s \in RoomsScores, t \in Times :
          GameFinished(c, r, n, s, t)
    \/ \E c \in {2, 3, 4} : Disconnect(c)

SpecRooms == InitRooms /\ [][NextRooms]_vars

(***************************************************************************)
(* SpecPayload: clients that send an event with no payload object.  Every  *)
(* handler but "disconnect" destructures its first argument in its         *)
(* parameter list, ({ teamName }) => ..., and destructuring undefined      *)
(* throws a TypeError before the body runs.  Nothing between the listener  *)
(* and the event loop catches it and server.js registers no                *)
(* uncaughtException handler: the Node process exits, every socket is      *)
(* closed and the Map is lost.                                             *)
(***************************************************************************)
\* The events whose handler destructures a payload.
PayloadEvents == {"createRoom", "joinRoom", "startGame", "scoreUpdate", "gameFinished"}

\* The process has not died of an uncaught exception.
Running == lastEvent.type # "uncaughtException"

\* socket c emits event ev with no argument.
MissingPayload(c, ev) ==
    /\ Running
    /\ c \in connected
    /\ lastEvent' = [type |-> "uncaughtException", event |-> ev, from |-> c,
                     error |-> "TypeError"]
    /\ Send(<<>>)
    /\ rooms' = <<>>
    /\ roomOrder' = <<>>
    /\ joined' = [r \in DOMAIN joined |-> {}]
    /\ connected' = {}
    /\ UNCHANGED <<nextId, now>>
    /\ UNCHANGED clientVars

\* A socket connects while the process is alive.
ConnectionAccepted ==
    /\ Running
    /\ Connection

\* The handlers of Next need a connected socket, and none is left once the
\* process has exited.
NextPayload ==
    \/ ConnectionAccepted
    \/ \E c \in Conns, n \in TeamNames : CreateRoom(c, n)
    \/ \E c \in Conns, r \in Codes, n \in TeamNames : JoinRoom(c, r, n)
    \/ \E c \in Conns, r \in Codes : StartGame(c, r)
    \/ \E c \in Conns, r \in Codes, s \in Scores : ScoreUpdate(c, r, s)
    \/ \E c \in Conns, r \in Codes, n \in TeamNames, s \in Scores, t \in Times :
          GameFinished(c, r, n, s, t)
    \/ \E c \in Conns : Disconnect(c)
    \/ \E c \in Conns, ev \in PayloadEvents : MissingPayload(c, ev)

SpecPayload == Init /\ [][NextPayload]_vars

(***************************************************************************)
(* The multiplayer lobby of the client (game.js).  A view is the set of    *)
(* lobby panels that do not carry the class "hidden".                      *)
(***************************************************************************)
\* resetMultiplayerState(): the create and join panels are shown, the
\* waiting and ready panels hidden.
LobbyView == {"multiplayer-create", "multiplayer-join"}

\* state.socket.on("roomJoined", ...)
OnRoomJoined(view) == (view \ {"multiplayer-join"}) \cup {"multiplayer-waiting"}

\* state.socket.on("opponentJoined", ...)
OnOpponentJoined(view) == (view \ {"multiplayer-waiting"}) \cup {"multiplayer-ready"}

\* The listener of the client for one emission of the server.
OnMessage(view, msg) ==
    IF msg.ev = "roomJoined" THEN OnRoomJoined(view)
    ELSE IF msg.ev = "opponentJoined" THEN OnOpponentJoined(view)
    ELSE view

\* The view of the client of socket c after the first k of msgs, delivered in
\* the order of emission, starting from view.
RECURSIVE ViewAfter(_, _, _, _)
ViewAfter(view, c, msgs, k) ==
    IF k = 0 THEN view
    ELSE LET before == ViewAfter(view, c, msgs, k - 1) IN
         IF c \in msgs[k].to THEN OnMessage(before, msgs[k]) ELSE before

(***************************************************************************)
(* SpecClient: one client (game.js) from the page load on.  The clicks are *)
(* those of the buttons of the active screen; gameStart, roomCreated and   *)
(* roomJoined arrive from the server while the socket is open.  The        *)
(* puzzles before the last room are left out: they change the score only.  *)
(***************************************************************************)
\* Pending endGame timeouts.
MaxTimeouts == 2

\* |state.score|
MaxPoints == 25

\* gameFinished events counted after one gameStart.
MaxFinishes == 2

\* #mode-select
Modes == {"solo", "versus", "multiplayer"}

\* function endGame(success, reason), called with the state object st.
EndGame(st) ==
    IF st.finished
    THEN /\ state' = st
         /\ UNCHANGED <<screen, game>>
    ELSE /\ game.gameFinished < MaxFinishes
         /\ state' = [st EXCEPT !.finished = TRUE]
         /\ screen' = "screen-end"
         /\ game' = IF st.mode = "multiplayer" /\ st.socket /\ game.started
                    THEN [game EXCEPT !.gameFinished = @ + 1]
                    ELSE game

\* btnStart.addEventListener("click", ...)
BtnStart(mode) ==
    /\ screen = "screen-start"
    /\ IF mode = "multiplayer"
       THEN /\ state' = [state EXCEPT !.mode = mode, !.finished = FALSE,
                                      !.timerId = FALSE, !.socket = TRUE]
            /\ screen' = "screen-multiplayer"
       ELSE /\ state' = [state EXCEPT !.mode = mode, !.finished = FALSE,
                                      !.timerId = TRUE]
            /\ screen' = "screen-game"
    /\ UNCHANGED <<timeouts, game>>
    /\ UNCHANGED serverVars

\* state.socket.on("roomCreated", ...), state.socket.on("roomJoined", ...)
RoomEntered(roomId) ==
    /\ state.socket
    /\ state' = [state EXCEPT !.roomId = roomId]
    /\ UNCHANGED <<screen, timeouts, game>>
    /\ UNCHANGED serverVars

\* state.socket.on("gameStart", ...): startMultiplayerGame()
StartMultiplayerGame ==
    /\ state.socket
    /\ state.roomId # NoRoom
    /\ state' = [state EXCEPT !.finished = FALSE, !.score = 0,
                              !.timerSeconds = MaxSeconds, !.timerId = TRUE]
    /\ screen' = "screen-game"
    /\ game' = [started |-> TRUE, gameFinished |-> 0]
    /\ UNCHANGED timeouts
    /\ UNCHANGED serverVars

\* The callback of setInterval in startTimer().
TimerTick ==
    /\ state.timerId
    /\ IF state.finished
       THEN /\ state' = [state EXCEPT !.timerId = FALSE]
            /\ UNCHANGED <<screen, game>>
       ELSE IF state.timerSeconds - 1 < 0
       THEN EndGame([state EXCEPT !.timerSeconds = 0, !.timerId = FALSE])
       ELSE /\ state' = [state EXCEPT !.timerSeconds = @ - 1]
            /\ UNCHANGED <<screen, game>>
    /\ UNCHANGED timeouts
    /\ UNCHANGED serverVars

\* bindConflictRoom: choice === "increment"
ChooseIncrement ==
    /\ screen = "screen-game"
    /\ timeouts < MaxTimeouts
    /\ state.score + 20 <= MaxPoints
    /\ state' = [state EXCEPT !.score = @ + 20]
    /\ timeouts' = timeouts + 1
    /\ UNCHANGED <<screen, game>>
    /\ UNCHANGED serverVars

\* setTimeout(() => { endGame(true); }, 1500)
TimeoutFires ==
    /\ timeouts > 0
    /\ timeouts' = timeouts - 1
    /\ EndGame(state)
    /\ UNCHANGED serverVars

\* bindConflictRoom: choice === "delay"
ChooseDelay ==
    /\ screen = "screen-game"
    /\ state.score + 5 <= MaxPoints
    /\ EndGame([state EXCEPT !.score = @ + 5])
    /\ UNCHANGED timeouts
    /\ UNCHANGED serverVars

\* bindConflictRoom: any other choice
ChooseOther ==
    /\ screen = "screen-game"
    /\ state.score - 8 >= 0 - MaxPoints
    /\ state' = [state EXCEPT !.score = @ - 8]
    /\ UNCHANGED <<screen, timeouts, game>>
    /\ UNCHANGED serverVars

\* btnRestart.addEventListener("click", ...)
BtnRestart ==
    /\ screen = "screen-end"
    /\ state' = [state EXCEPT !.timerId = FALSE, !.score = 0,
                              !.timerSeconds = MaxSeconds, !.finished = FALSE]
    /\ screen' = "screen-start"
    /\ UNCHANGED <<timeouts, game>>
    /\ UNCHANGED serverVars

\* btnBackFromMultiplayer.addEventListener("click", ...)
BtnBackFromMultiplayer ==
    /\ screen = "screen-multiplayer"
    /\ state' = [state EXCEPT !.socket = FALSE, !.roomId = NoRoom]
    /\ screen' = "screen-start"
    /\ UNCHANGED <<timeouts, game>>
    /\ UNCHANGED serverVars

NextClient ==
    \/ \E mode \in Modes : BtnStart(mode)
    \/ \E roomId \in Codes : RoomEntered(roomId)
    \/ StartMultiplayerGame
    \/ TimerTick
    \/ ChooseIncrement
    \/ TimeoutFires
    \/ ChooseDelay
    \/ ChooseOther
    \/ BtnRestart
    \/ BtnBackFromMultiplayer

SpecClient == Init /\ [][NextClient]_vars

(***************************************************************************)
(* Vocabulary of the properties.                                           *)
(***************************************************************************)
\* The positions of the emissions of event ev among msgs.
Sent(msgs, ev) == {i \in 1..Len(msgs) : msgs[i].ev = ev}

\* The last handler adjudicated: it emitted the two gameResult payloads.
Adjudicated ==
    /\ lastEvent.type = "gameFinished"
    /\ Len(out) = 2
    /\ out[1].ev = "gameResult"
    /\ out[2].ev = "gameResult"

\* The room the last handler adjudicated.
AdjRoom == rooms[lastEvent.roomId]

\* Room holds these final scores and times.
Holds(room, hostScore, hostTime, guestScore, guestTime) ==
    /\ room.host.score = hostScore
    /\ room.host.time = hostTime
    /\ room.guest.score = guestScore
    /\ room.guest.time = guestTime

(***************************************************************************)
(* C1.  Room codes are unique among active rooms: a createRoom never       *)
(* stores its new room under a code that is already a key of the Map, so   *)
(* every room that existed before the createRoom is still there, unchanged.*)
(* Fails: generateRoomId does not look at the Map and rooms.set replaces.  *)
(***************************************************************************)
C1_CreateRoomKeepsRooms ==
    [][lastEvent'.type = "createRoom" =>
          /\ out'[1].data.roomId \notin DOMAIN rooms
          /\ \A r \in DOMAIN rooms : r \in DOMAIN rooms' /\ rooms'[r] = rooms[r]]_vars

(***************************************************************************)
(* C2.  Of two joinRoom events for the same room, whatever their order,    *)
(* exactly one succeeds: a joinRoom is answered with roomJoined only when  *)
(* the guest seat was empty, and then the sender holds the seat; a         *)
(* joinRoom that finds the seat held gets the room-full error, is not      *)
(* answered with roomJoined and leaves the room as it was.                 *)
(***************************************************************************)
C2_JoinExclusive ==
    [][(lastEvent'.type = "joinRoom" /\ lastEvent'.roomId \in DOMAIN rooms) =>
          LET r == lastEvent'.roomId
              c == lastEvent'.from
          IN  IF rooms[r].guest = Null
              THEN /\ rooms'[r].guest # Null
                   /\ rooms'[r].guest.id = c
                   /\ out'[1] = Emit({c}, "roomJoined", [roomId |-> r])
              ELSE /\ rooms'[r] = rooms[r]
                   /\ Sent(out', "roomJoined") = {}
                   /\ \E i \in Sent(out', "error") :
                         /\ c \in out'[i].to
                         /\ out'[i].data.message = "Pokoj jest pelny"]_vars

\* A second socket asked for the seat a first one holds, and was refused.
C2_Witness ==
    /\ lastEvent.type = "joinRoom"
    /\ lastEvent.roomId \in DOMAIN rooms
    /\ Sent(out, "error") # {}
    /\ LET room == rooms[lastEvent.roomId] IN
          /\ room.guest # Null
          /\ room.guest.id # lastEvent.from
          /\ room.guest.id # room.host.id
          /\ room.host.id # lastEvent.from

(***************************************************************************)
(* C3.  joinRoom on a code with no room yields the room-not-found error,   *)
(* joinRoom on a room whose guest seat is held yields the room-full error; *)
(* either way the error is the only emission, it reaches the requester     *)
(* only, and no room, key order or socket.io membership changes.           *)
(***************************************************************************)
C3_JoinErrors ==
    [][lastEvent'.type = "joinRoom" =>
          LET r == lastEvent'.roomId
              c == lastEvent'.from
          IN  /\ r \notin DOMAIN rooms =>
                    /\ out' = <<Emit({c}, "error", [message |-> "Pokoj nie istnieje"])>>
                    /\ UNCHANGED <<rooms, roomOrder, joined>>
              /\ (r \in DOMAIN rooms /\ rooms[r].guest # Null) =>
                    /\ out' = <<Emit({c}, "error", [message |-> "Pokoj jest pelny"])>>
                    /\ UNCHANGED <<rooms, roomOrder, joined>>]_vars

\* A joinRoom for a code with no room was refused while others were connected.
C3_Witness ==
    /\ lastEvent.type = "joinRoom"
    /\ lastEvent.roomId \notin DOMAIN rooms
    /\ Len(out) = 1
    /\ out[1].ev = "error"
    /\ connected \ {lastEvent.from} # {}

(***************************************************************************)
(* C4.  A room whose game has been started has its host seat and its       *)
(* guest seat occupied, also after a guest disconnects.                    *)
(* Fails: the disconnect of the guest clears the seat and leaves started.  *)
(***************************************************************************)
C4_StartedRoomHasBothSeats ==
    \A r \in DOMAIN rooms : rooms[r].started => rooms[r].guest # Null

(***************************************************************************)
(* C5.  Once both seats of a started room have finished (and so have been *)
(* sent their gameResult), no later event on that room sends a gameResult  *)
(* again.  Fails: gameFinished adjudicates whenever both flags are set.    *)
(***************************************************************************)
C5_OneResultPerMatch ==
    [][\A r \in DOMAIN rooms :
          (/\ rooms[r].started
           /\ BothFinished(rooms[r])
           /\ lastEvent'.type \in {"joinRoom", "startGame", "scoreUpdate", "gameFinished"}
           /\ lastEvent'.roomId = r)
          => Sent(out', "gameResult") = {}]_vars

(***************************************************************************)
(* C6.  While only one seat of a room has finished, no gameResult is       *)
(* emitted and the other seat receives one opponentFinished, not more:     *)
(* when the finisher's gameFinished has just delivered opponentFinished to *)
(* the other seat, a further event on that room that leaves only that one  *)
(* seat finished emits no gameResult and delivers no second                *)
(* opponentFinished.  Fails: every gameFinished of the finisher notifies   *)
(* the other seat again.                                                   *)
(***************************************************************************)
\* Both seats are held and exactly one of the two has finished.
OneFinished(room) ==
    /\ room.guest # Null
    /\ room.host.finished # room.guest.finished

\* The finished seat of the room sent the last event, a gameFinished, and the
\* handler delivered opponentFinished to the other seat.
FinisherNotified(r) ==
    /\ rooms[r].started
    /\ OneFinished(rooms[r])
    /\ rooms[r].host.id # rooms[r].guest.id
    /\ lastEvent.type = "gameFinished"
    /\ lastEvent.roomId = r
    /\ lastEvent.from = (IF rooms[r].host.finished THEN rooms[r].host.id
                         ELSE rooms[r].guest.id)
    /\ \E i \in Sent(out, "opponentFinished") : out[i].to # {}

C6_OneOpponentFinished ==
    [][\A r \in DOMAIN rooms :
          (/\ FinisherNotified(r)
           /\ lastEvent'.type \in {"joinRoom", "startGame", "scoreUpdate", "gameFinished"}
           /\ lastEvent'.roomId = r
           /\ r \in DOMAIN rooms'
           /\ OneFinished(rooms'[r]))
          => /\ Sent(out', "gameResult") = {}
             /\ \A i \in Sent(out', "opponentFinished") : out'[i].to = {}]_vars

(***************************************************************************)
(* C7.  The two gameResult payloads of one adjudication are mirror images: *)
(* the first goes to the host and the second to the guest, each "my" value *)
(* is the other's "opponent" value, each opponentName is the other seat's  *)
(* name, isDraw and reason agree, and isWinner holds for exactly one seat  *)
(* unless isDraw, and then for neither.                                    *)
(***************************************************************************)
C7_MirrorResults ==
    Adjudicated =>
        LET h == out[1].data
            g == out[2].data
        IN  /\ out[1].to = {AdjRoom.host.id}
            /\ out[2].to = {AdjRoom.guest.id}
            /\ h.myScore = g.opponentScore
            /\ h.myTime = g.opponentTime
            /\ g.myScore = h.opponentScore
            /\ g.myTime = h.opponentTime
            /\ h.opponentName = AdjRoom.guest.teamName
            /\ g.opponentName = AdjRoom.host.teamName
            /\ h.isDraw = g.isDraw
            /\ h.reason = g.reason
            /\ h.isDraw => (~h.isWinner /\ ~g.isWinner)
            /\ ~h.isDraw => (h.isWinner # g.isWinner)

\* An adjudication with a winner, of seats that differ in score, time and name.
C7_Witness ==
    /\ Adjudicated
    /\ ~out[1].data.isDraw
    /\ out[1].data.myScore # out[1].data.opponentScore
    /\ out[1].data.myTime # out[1].data.opponentTime
    /\ out[1].data.opponentName # out[2].data.opponentName

(***************************************************************************)
(* C8.  For all scores and times of the range, the adjudication of the     *)
(* values the seats reported gives: the strictly higher score wins,        *)
(* "more points"; on equal scores the strictly lower time wins, "equal     *)
(* points, faster time"; on equal scores and times a draw, "full tie".     *)
(***************************************************************************)
HostWins(reason) ==
    /\ out[1].data.isWinner /\ ~out[2].data.isWinner
    /\ ~out[1].data.isDraw /\ ~out[2].data.isDraw
    /\ out[1].data.reason = reason /\ out[2].data.reason = reason

GuestWins(reason) ==
    /\ ~out[1].data.isWinner /\ out[2].data.isWinner
    /\ ~out[1].data.isDraw /\ ~out[2].data.isDraw
    /\ out[1].data.reason = reason /\ out[2].data.reason = reason

Draw(reason) ==
    /\ ~out[1].data.isWinner /\ ~out[2].data.isWinner
    /\ out[1].data.isDraw /\ out[2].data.isDraw
    /\ out[1].data.reason = reason /\ out[2].data.reason = reason

\* The seat that sent the last gameFinished holds what it reported.
HoldsReport(room) ==
    LET p == IF IsHost(room, lastEvent.from) THEN room.host ELSE room.guest
    IN  p.score = lastEvent.score /\ p.time = lastEvent.time

C8_Adjudication ==
    Adjudicated =>
        LET hs == AdjRoom.host.score
            ht == AdjRoom.host.time
            gs == AdjRoom.guest.score
            gt == AdjRoom.guest.time
        IN  /\ HoldsReport(AdjRoom)
            /\ hs > gs => HostWins("Wiecej punktow")
            /\ gs > hs => GuestWins("Wiecej punktow")
            /\ (hs = gs /\ ht < gt) => HostWins("Rowne punkty, szybszy czas")
            /\ (hs = gs /\ gt < ht) => GuestWins("Rowne punkty, szybszy czas")
            /\ (hs = gs /\ ht = gt) => Draw("Pelny remis")

\* The documented example (10,120,8,90) was adjudicated.
C8_Witness == Adjudicated /\ Holds(AdjRoom, 10, 120, 8, 90)

(***************************************************************************)
(* C9.  As claimed: adjudicating host (10, 120) against guest (10, 90)     *)
(* declares the host the winner, "equal points, faster time".              *)
(***************************************************************************)
C9_HostWinsExample ==
    (Adjudicated /\ Holds(AdjRoom, 10, 120, 10, 90))
        => HostWins("Rowne punkty, szybszy czas")

(***************************************************************************)
(* C9, amended.  Adjudicating host (10, 120) against guest (10, 90)        *)
(* declares the guest, whose time is the lower one, the winner, "equal     *)
(* points, faster time".                                                   *)
(***************************************************************************)
C9_GuestWinsExample ==
    (Adjudicated /\ Holds(AdjRoom, 10, 120, 10, 90))
        => GuestWins("Rowne punkty, szybszy czas")

\* Host (10, 120) and guest (10, 90) were adjudicated.
C9_Witness == Adjudicated /\ Holds(AdjRoom, 10, 120, 10, 90)

(***************************************************************************)
(* C10.  The outcome depends only on the final scores and times, not on    *)
(* the order of the two finish reports.  Two matches run side by side: no  *)
(* other event reaches their rooms, so the results a room's seats were     *)
(* sent last are those of the values it holds.  Whenever one room is       *)
(* adjudicated while the other one, adjudicated before, holds the same     *)
(* names, scores and times, the two payloads sent are those of the other   *)
(* room, whatever the order and the timestamps of the four reports.        *)
(***************************************************************************)
SameReports(a, b) ==
    /\ a.host.teamName = b.host.teamName
    /\ a.guest.teamName = b.guest.teamName
    /\ Holds(a, b.host.score, b.host.time, b.guest.score, b.guest.time)

C10_OrderIndependent ==
    Adjudicated =>
        \A r \in DOMAIN rooms \ {lastEvent.roomId} :
            (BothFinished(rooms[r]) /\ SameReports(rooms[r], AdjRoom)) =>
                /\ out[1].data = HostResult(rooms[r])
                /\ out[2].data = GuestResult(rooms[r])

\* The host finished first in one room and the guest first in the other one,
\* with the same scores and times, equal between the seats.
C10_Witness ==
    /\ Adjudicated
    /\ \E r \in DOMAIN rooms \ {lastEvent.roomId} :
          /\ BothFinished(rooms[r])
          /\ SameReports(rooms[r], AdjRoom)
          /\ rooms[r].host.finishTimestamp < rooms[r].guest.finishTimestamp
          /\ AdjRoom.guest.finishTimestamp < AdjRoom.host.finishTimestamp
          /\ AdjRoom.host.score = AdjRoom.guest.score
          /\ AdjRoom.host.time = AdjRoom.guest.time

(***************************************************************************)
(* C11.  A scoreUpdate sent by a seat of a room whose two seats are held   *)
(* causes exactly one opponentUpdate, carrying the score sent, delivered   *)
(* to the connection of the other seat, and nothing is delivered back to   *)
(* the sender.  Fails: the server lets the host join its own room, both    *)
(* seats then belong to one connection and its scoreUpdate comes back to   *)
(* it as opponentUpdate.                                                   *)
(***************************************************************************)
\* The last handler processed a scoreUpdate sent by a seat of room r, and both
\* seats of r are held.
SeatSentScore(r) ==
    /\ lastEvent.type = "scoreUpdate"
    /\ lastEvent.roomId = r
    /\ rooms[r].guest # Null
    /\ lastEvent.from \in {rooms[r].host.id, rooms[r].guest.id}

\* The seat of the room that connection c does not hold.
OtherSeat(room, c) == IF IsHost(room, c) THEN room.guest ELSE room.host

C11_ScoreRelayedToOtherSeat ==
    \A r \in DOMAIN rooms :
        SeatSentScore(r) =>
            /\ Len(out) = 1
            /\ out[1].ev = "opponentUpdate"
            /\ out[1].data = [score |-> lastEvent.score]
            /\ out[1].to = {OtherSeat(rooms[r], lastEvent.from).id}
            /\ lastEvent.from \notin out[1].to

(***************************************************************************)
(* C12.  A startGame on a room with no guest never changes the room        *)
(* (started stays false, no gameStart is emitted) and always yields the    *)
(* "wait for the opponent" error to the requester and to no other          *)
(* connection.  As written, for every requester: fails, a requester that   *)
(* is not the host of the room gets no answer at all.                      *)
(***************************************************************************)
\* The step is the handling of a startGame on room r.
StartOf(r) == lastEvent'.type = "startGame" /\ lastEvent'.roomId = r

\* The step stores nothing and answers the requester alone with the error.
RefusedForNoGuest ==
    /\ rooms' = rooms
    /\ out' = <<Emit({lastEvent'.from}, "error",
                     [message |-> "Czekaj na przeciwnika"])>>

C12_StartWithoutGuest ==
    [][\A r \in DOMAIN rooms :
          (rooms[r].guest = Null /\ StartOf(r)) => RefusedForNoGuest]_vars

(***************************************************************************)
(* C12, amended.  A startGame sent by the host of a room with no guest     *)
(* never changes the room and yields the "wait for the opponent" error to  *)
(* the host and to no other connection.                                    *)
(***************************************************************************)
C12_HostStartWithoutGuest ==
    [][\A r \in DOMAIN rooms :
          (/\ rooms[r].guest = Null
           /\ StartOf(r)
           /\ lastEvent'.from = rooms[r].host.id) => RefusedForNoGuest]_vars

\* The host of a room with no guest has just asked to start and was refused.
C12_Witness ==
    /\ lastEvent.type = "startGame"
    /\ lastEvent.roomId \in DOMAIN rooms
    /\ rooms[lastEvent.roomId].guest = Null
    /\ rooms[lastEvent.roomId].host.id = lastEvent.from
    /\ ~rooms[lastEvent.roomId].started
    /\ Len(out) = 1
    /\ out[1].ev = "error"

(***************************************************************************)
(* C13.  A startGame sent by a connection that is not the host of the room *)
(* (its guest or an outsider) emits nothing to anyone, neither gameStart   *)
(* nor an error, and leaves the room unchanged.                            *)
(***************************************************************************)
C13_NonHostStartIgnored ==
    [][\A r \in DOMAIN rooms :
          (StartOf(r) /\ lastEvent'.from # rooms[r].host.id)
          => (out' = <<>> /\ rooms' = rooms)]_vars

\* The guest of a complete room has just asked to start it.
C13_Witness ==
    /\ lastEvent.type = "startGame"
    /\ lastEvent.roomId \in DOMAIN rooms
    /\ IsGuest(rooms[lastEvent.roomId], lastEvent.from)
    /\ ~IsHost(rooms[lastEvent.roomId], lastEvent.from)
    /\ ~rooms[lastEvent.roomId].started
    /\ out = <<>>

(***************************************************************************)
(* C14.  When the host of a room disconnects the room is deleted; a guest, *)
(* if present, receives exactly one hostDisconnected, and none is emitted  *)
(* when there is no guest; afterwards, while the code names no room, a     *)
(* joinRoom with it yields room-not-found and a startGame, scoreUpdate or  *)
(* gameFinished with it emits nothing and changes nothing.  Fails: the     *)
(* server lets one connection host two rooms and the disconnect deletes    *)
(* only the first of them.                                                 *)
(***************************************************************************)
\* The step is the handling of the disconnect of the host of room r.
HostLeaves(r) ==
    /\ lastEvent'.type = "disconnect"
    /\ lastEvent'.from = rooms[r].host.id

\* The step emits one hostDisconnected to the guest of the room, if any.
GuestToldHostLeft(room) ==
    out' = IF room.guest # Null
           THEN <<Emit({room.guest.id}, "hostDisconnected", Null)>>
           ELSE <<>>

\* The step handles an event that names a code under which no room is stored.
OnMissingRoom ==
    /\ lastEvent'.type \in {"joinRoom", "startGame", "scoreUpdate", "gameFinished"}
    /\ lastEvent'.roomId \notin DOMAIN rooms

C14_HostDisconnectDeletesRoom ==
    [][/\ \A r \in DOMAIN rooms :
             HostLeaves(r) => (r \notin DOMAIN rooms' /\ GuestToldHostLeft(rooms[r]))
       /\ OnMissingRoom =>
             /\ rooms' = rooms
             /\ out' = IF lastEvent'.type = "joinRoom"
                       THEN <<Emit({lastEvent'.from}, "error",
                                   [message |-> "Pokoj nie istnieje"])>>
                       ELSE <<>>]_vars

(***************************************************************************)
(* C15.  When the guest of a room disconnects, the room stays in the store *)
(* with its host, its guest seat becomes empty (so that a later joinRoom   *)
(* with that code finds the seat free), and the host receives exactly one  *)
(* opponentLeft.  Stated for a guest that is not the host of the same      *)
(* room.  Fails: a connection that is also seated in a room stored earlier *)
(* leaves that room only, and stays the guest of this one.                 *)
(***************************************************************************)
\* The step is the handling of the disconnect of the guest of room r, a
\* connection other than the host of r.
GuestLeaves(r) ==
    /\ lastEvent'.type = "disconnect"
    /\ IsGuest(rooms[r], lastEvent'.from)
    /\ ~IsHost(rooms[r], lastEvent'.from)

C15_GuestDisconnectReopensRoom ==
    [][\A r \in DOMAIN rooms :
          GuestLeaves(r) =>
             /\ r \in DOMAIN rooms'
             /\ rooms'[r].host = rooms[r].host
             /\ rooms'[r].guest = Null
             /\ out' = <<Emit({rooms[r].host.id}, "opponentLeft", Null)>>]_vars

(***************************************************************************)
(* C16.  A connection belongs to at most one room at a time: in every      *)
(* reachable state no connection id holds seats in two different rooms,    *)
(* and no connection id is both host and guest of one room.  Fails:        *)
(* createRoom and joinRoom seat the sender without looking at the seats it *)
(* already holds.                                                          *)
(***************************************************************************)
\* The rooms in which connection c holds a seat.
RoomsOf(c) == {r \in DOMAIN rooms : IsHost(rooms[r], c) \/ IsGuest(rooms[r], c)}

C16_OneRoomPerConnection ==
    \A c \in Conns :
        /\ Cardinality(RoomsOf(c)) <= 1
        /\ \A r \in DOMAIN rooms : ~(IsHost(rooms[r], c) /\ IsGuest(rooms[r], c))

(***************************************************************************)
(* C17.  Immediately after the disconnect of a connection has been         *)
(* handled, no room of the store lists that connection as its host or as   *)
(* its guest.  Fails: the handler stops at the first room that lists it.   *)
(***************************************************************************)
C17_DisconnectClearsSeats ==
    lastEvent.type = "disconnect" => RoomsOf(lastEvent.from) = {}

(***************************************************************************)
(* C18.  A successful startGame delivers gameStart exactly once to the     *)
(* host of the room and exactly once to its current guest, and to no other *)
(* connection, in particular not to a connection that joined a since       *)
(* deleted room with the same code and is still connected.  Stated for a   *)
(* room whose seats are held by two connections.  Fails: gameStart goes to *)
(* the socket.io room of the code, which no socket ever leaves while it is *)
(* connected.                                                              *)
(***************************************************************************)
\* The last handler started room r, whose seats two connections hold.
Started(r) ==
    /\ lastEvent.type = "startGame"
    /\ lastEvent.roomId = r
    /\ Sent(out, "gameStart") # {}
    /\ rooms[r].host.id # rooms[r].guest.id

C18_GameStartToSeatsOnly ==
    \A r \in DOMAIN rooms :
        Started(r) =>
            out = <<Emit({rooms[r].host.id, rooms[r].guest.id}, "gameStart", Null)>>

(***************************************************************************)
(* C19.  Every error event is delivered only to the connection whose       *)
(* request caused it: whenever a handler emits an error, the handler is    *)
(* that of a joinRoom or startGame and the error reaches its sender and no *)
(* other connection.                                                       *)
(***************************************************************************)
C19_ErrorsToRequesterOnly ==
    \A i \in Sent(out, "error") :
        /\ lastEvent.type \in {"joinRoom", "startGame"}
        /\ out[i].to = {lastEvent.from}

\* A startGame was refused with an error while two other sockets are connected.
C19_Witness ==
    /\ lastEvent.type = "startGame"
    /\ Sent(out, "error") # {}
    /\ Cardinality(connected \ {lastEvent.from}) = 2

(***************************************************************************)
(* C20.  A successful joinRoom sets the guest seat to the joiner and emits *)
(* exactly three events, in this order: roomJoined with the code to the    *)
(* joiner, opponentJoined carrying the joiner's name addressed to the host *)
(* (it reaches the host's socket while that is connected), and             *)
(* opponentJoined carrying the host's name to the joiner.                  *)
(***************************************************************************)
\* The step is a joinRoom on room r, whose guest seat is free.
JoinSucceeds(r) ==
    /\ lastEvent'.type = "joinRoom"
    /\ lastEvent'.roomId = r
    /\ rooms[r].guest = Null

C20_JoinSeatsAndNotifies ==
    [][\A r \in DOMAIN rooms :
          JoinSucceeds(r) =>
             LET c == lastEvent'.from
                 name == lastEvent'.teamName
             IN  /\ rooms' = [rooms EXCEPT ![r].guest = NewPlayer(c, name)]
                 /\ out' = <<Emit({c}, "roomJoined", [roomId |-> r]),
                             Emit({rooms[r].host.id} \cap connected, "opponentJoined",
                                  [opponentName |-> name]),
                             Emit({c}, "opponentJoined",
                                  [opponentName |-> rooms[r].host.teamName])>>]_vars

\* A socket has just joined the room of another socket under another name.
C20_Witness ==
    /\ lastEvent.type = "joinRoom"
    /\ lastEvent.roomId \in DOMAIN rooms
    /\ Len(out) = 3
    /\ rooms[lastEvent.roomId].guest # Null
    /\ rooms[lastEvent.roomId].guest.id = lastEvent.from
    /\ rooms[lastEvent.roomId].host.id # lastEvent.from
    /\ rooms[lastEvent.roomId].host.teamName # lastEvent.teamName
    /\ out[2].to = {rooms[lastEvent.roomId].host.id}

(***************************************************************************)
(* C21.  createRoom inserts a room whose host is the requesting connection *)
(* with score 0 and finished = false, whose guest seat is empty and whose  *)
(* game is not started, and replies with roomCreated carrying the new code *)
(* to the requester only.                                                  *)
(***************************************************************************)
C21_CreateRoomStoresFreshRoom ==
    lastEvent.type = "createRoom" =>
        /\ Len(out) = 1
        /\ out[1].ev = "roomCreated"
        /\ out[1].to = {lastEvent.from}
        /\ DOMAIN out[1].data = {"roomId"}
        /\ out[1].data.roomId \in DOMAIN rooms
        /\ LET room == rooms[out[1].data.roomId]
           IN  /\ room.host.id = lastEvent.from
               /\ room.host.teamName = lastEvent.teamName
               /\ room.host.score = 0
               /\ room.host.finished = FALSE
               /\ room.guest = Null
               /\ room.started = FALSE

\* A second socket has just created a room while another socket is connected.
C21_Witness ==
    /\ lastEvent.type = "createRoom"
    /\ lastEvent.from = 2
    /\ 1 \in connected
    /\ 1 \in DOMAIN rooms
    /\ rooms[1].host.id = 2

(***************************************************************************)
(* C22.  The finished flag is latched: once the finished flag of a player  *)
(* is true, no scoreUpdate, gameFinished, startGame, joinRoom or           *)
(* disconnect sets it back to false for as long as that player holds the   *)
(* seat.  (A createRoom stores a new room with a new host record; it is    *)
(* not an event on the player of the room it stores.)                      *)
(***************************************************************************)
\* The step handles an event on the stored rooms and room r outlives it.
RoomKept(r) ==
    /\ lastEvent'.type \in {"scoreUpdate", "gameFinished", "startGame",
                            "joinRoom", "disconnect"}
    /\ r \in DOMAIN rooms'

\* The guest seat of the room is held by a player that has finished.
GuestFinished(room) == room.guest # Null /\ room.guest.finished

C22_FinishedLatched ==
    [][\A r \in DOMAIN rooms :
          RoomKept(r) =>
             /\ (rooms[r].host.finished /\ rooms'[r].host.id = rooms[r].host.id)
                   => rooms'[r].host.finished
             /\ (GuestFinished(rooms[r]) /\ IsGuest(rooms'[r], rooms[r].guest.id))
                   => rooms'[r].guest.finished]_vars

\* A finished host has just reported its finish once more.
C22_Witness ==
    /\ lastEvent.type = "gameFinished"
    /\ lastEvent.roomId \in DOMAIN rooms
    /\ IsHost(rooms[lastEvent.roomId], lastEvent.from)
    /\ rooms[lastEvent.roomId].host.finished
    /\ GuestFinished(rooms[lastEvent.roomId])
    /\ Len(out) = 2

(***************************************************************************)
(* C23.  A scoreUpdate or gameFinished that names a code with no active    *)
(* room is silently dropped: nothing is emitted to any connection and no   *)
(* room changes.                                                           *)
(***************************************************************************)
C23_UpdateOnMissingRoomDropped ==
    [][(/\ lastEvent'.type \in {"scoreUpdate", "gameFinished"}
        /\ lastEvent'.roomId \notin DOMAIN rooms)
       => (out' = <<>> /\ rooms' = rooms /\ roomOrder' = roomOrder)]_vars

\* A gameFinished has just named the code of a room that its host's
\* disconnect had deleted; the former guest sent it.
C23_Witness ==
    /\ lastEvent.type = "gameFinished"
    /\ lastEvent.roomId \notin DOMAIN rooms
    /\ lastEvent.from \in joined[lastEvent.roomId]
    /\ out = <<>>

(***************************************************************************)
(* C24.  No inbound event crashes the coordinator: in every reachable      *)
(* state and for every event, events whose payload object is missing       *)
(* included, the handler completes without raising an exception.  Fails:   *)
(* an event with no payload makes the handler throw.                       *)
(***************************************************************************)
C24_NoHandlerThrows ==
    lastEvent.type = "uncaughtException" => lastEvent.event \notin PayloadEvents

(***************************************************************************)
(* C25.  A gameResult is emitted for a room only after a gameStart was     *)
(* broadcast for it: gameFinished events sent by both seats of a room that *)
(* was never started produce no adjudication.  Fails: gameFinished never   *)
(* looks at started.                                                       *)
(***************************************************************************)
C25_ResultOnlyAfterStart ==
    \A r \in DOMAIN rooms :
        (/\ lastEvent.type = "gameFinished"
         /\ lastEvent.roomId = r
         /\ Sent(out, "gameResult") # {})
        => rooms[r].started

(***************************************************************************)
(* C26.  startGame is a legal transition only from the ready phase: a      *)
(* startGame sent by the host of a room that is already started emits no   *)
(* further gameStart, so each seat receives at most one gameStart per      *)
(* match.  Stated for a room whose guest seat is still held by another     *)
(* connection.  Fails: startGame never looks at started.                   *)
(***************************************************************************)
\* Room r is started and its seats are held by two connections.
MatchRunning(r) ==
    /\ rooms[r].started
    /\ rooms[r].guest # Null
    /\ rooms[r].guest.id # rooms[r].host.id

C26_StartOnlyOnce ==
    [][\A r \in DOMAIN rooms :
          (/\ MatchRunning(r)
           /\ StartOf(r)
           /\ lastEvent'.from = rooms[r].host.id)
          => Sent(out', "gameStart") = {}]_vars

(***************************************************************************)
(* C27.  Completed is terminal: after both seats of a started room have    *)
(* finished, no scoreUpdate, gameFinished or startGame changes the stored  *)
(* score, time or name of either seat, and none of them emits              *)
(* opponentUpdate, opponentFinished, gameResult or gameStart.  Fails: the  *)
(* handlers never look at the finished flags before writing and emitting.  *)
(***************************************************************************)
\* The score, time and name stored for a seat.
Reported(player) ==
    [score |-> player.score, time |-> player.time, teamName |-> player.teamName]

\* Room r is started, its seats are held by two connections and both have
\* finished.
Completed(r) == MatchRunning(r) /\ BothFinished(rooms[r])

C27_CompletedIsTerminal ==
    [][\A r \in DOMAIN rooms :
          (/\ Completed(r)
           /\ lastEvent'.type \in {"scoreUpdate", "gameFinished", "startGame"}
           /\ lastEvent'.roomId = r)
          => /\ Reported(rooms'[r].host) = Reported(rooms[r].host)
             /\ Reported(rooms'[r].guest) = Reported(rooms[r].guest)
             /\ \A i \in 1..Len(out') :
                   out'[i].ev \notin {"opponentUpdate", "opponentFinished",
                                      "gameResult", "gameStart"}]_vars

(***************************************************************************)
(* C28.  Every gameResult is computed only from values the two current     *)
(* seats reported in the current match: when a guest joins a room the      *)
(* finished flag of the host is false, so that a finish of the host from   *)
(* before a guest left is never adjudicated against a newly joined guest.  *)
(* Stated for a guest that takes the seat of a room started with an        *)
(* earlier guest.  Fails: nothing ever sets finished back to false.        *)
(***************************************************************************)
\* The last handler seated a new guest in room r, which an earlier guest left
\* after the start.
Rejoined(r) ==
    /\ lastEvent.type = "joinRoom"
    /\ lastEvent.roomId = r
    /\ Sent(out, "roomJoined") # {}
    /\ rooms[r].started
    /\ rooms[r].guest.id # rooms[r].host.id

C28_RejoinedHostUnfinished ==
    \A r \in DOMAIN rooms : Rejoined(r) => ~rooms[r].host.finished

(***************************************************************************)
(* C29.  A gameFinished for an existing room sent by a connection that is  *)
(* neither its host nor its guest changes nothing and emits nothing: no    *)
(* opponentFinished reaches the host and no gameResult is sent to the      *)
(* seats again.  Fails: the handler goes on after recording nothing and    *)
(* treats the host as the sender's opponent.                               *)
(***************************************************************************)
\* The step is a gameFinished on room r sent by a connection with no seat in r.
OutsiderFinishes(r) ==
    /\ lastEvent'.type = "gameFinished"
    /\ lastEvent'.roomId = r
    /\ ~IsHost(rooms[r], lastEvent'.from)
    /\ ~IsGuest(rooms[r], lastEvent'.from)

C29_OutsiderFinishIgnored ==
    [][\A r \in DOMAIN rooms :
          OutsiderFinishes(r) => (rooms' = rooms /\ out' = <<>>)]_vars

(***************************************************************************)
(* C30.  The score of a finished player is final: the score adjudicated    *)
(* for a seat is the score of that seat's gameFinished, and a scoreUpdate  *)
(* sent by a seat after it finished does not change the stored score that  *)
(* is later adjudicated.  Stated for a started room whose seats are held   *)
(* by two connections.  Fails: scoreUpdate writes the score of a finished  *)
(* seat.                                                                   *)
(***************************************************************************)
\* The seat of the room held by connection c, Null if c holds none.
SeatOf(room, c) ==
    IF IsHost(room, c) THEN room.host
    ELSE IF IsGuest(room, c) THEN room.guest
    ELSE Null

C30_FinishedScoreFinal ==
    [][\A r \in DOMAIN rooms :
          (/\ MatchRunning(r)
           /\ lastEvent'.type = "scoreUpdate"
           /\ lastEvent'.roomId = r
           /\ SeatOf(rooms[r], lastEvent'.from) # Null
           /\ SeatOf(rooms[r], lastEvent'.from).finished)
          => SeatOf(rooms'[r], lastEvent'.from).score
                = SeatOf(rooms[r], lastEvent'.from).score]_vars

(***************************************************************************)
(* C31.  Rooms are isolated: a joinRoom, startGame, scoreUpdate or         *)
(* gameFinished carrying code A leaves every room with another code        *)
(* unchanged and emits nothing to the seats of other rooms, whatever       *)
(* connection sends it.  Stated for states in which every connection holds *)
(* at most one seat.  Fails: gameStart goes to the socket.io room of the   *)
(* code, in which the guest of a deleted room with that code still is, by  *)
(* now the host of another room.                                           *)
(***************************************************************************)
\* The ids of the connections seated in the room.
SeatIds(room) ==
    {room.host.id} \cup (IF room.guest # Null THEN {room.guest.id} ELSE {})

\* Every connection holds at most one seat.
SingleSeats ==
    /\ \A r \in DOMAIN rooms : ~IsGuest(rooms[r], rooms[r].host.id)
    /\ \A r, q \in DOMAIN rooms : r # q => SeatIds(rooms[r]) \cap SeatIds(rooms[q]) = {}

\* The connections seated in a room other than a after the step, leaving out
\* the seats of room a and the sender of the event.
SeatsElsewhere(a) ==
    (UNION {SeatIds(rooms'[r]) : r \in DOMAIN rooms' \ {a}})
        \ ((IF a \in DOMAIN rooms' THEN SeatIds(rooms'[a]) ELSE {}) \cup {lastEvent'.from})

C31_RoomsIsolated ==
    [][(/\ SingleSeats
        /\ lastEvent'.type \in {"joinRoom", "startGame", "scoreUpdate", "gameFinished"})
       => LET a == lastEvent'.roomId
          IN  /\ \A r \in DOMAIN rooms \ {a} :
                    r \in DOMAIN rooms' /\ rooms'[r] = rooms[r]
              /\ \A i \in 1..Len(out') : out'[i].to \cap SeatsElsewhere(a) = {}]_vars

(***************************************************************************)
(* C32.  The stored score, time, name and finished flag of a player are    *)
(* changed only by events of that player's own connection: a scoreUpdate   *)
(* or gameFinished sent by the host leaves the record of the guest seat    *)
(* unchanged, and one sent by any other connection leaves the record of    *)
(* the host seat unchanged.                                                *)
(***************************************************************************)
C32_OwnRecordOnly ==
    [][\A r \in DOMAIN rooms :
          (/\ lastEvent'.type \in {"scoreUpdate", "gameFinished"}
           /\ lastEvent'.roomId = r)
          => /\ r \in DOMAIN rooms'
             /\ IF IsHost(rooms[r], lastEvent'.from)
                THEN rooms'[r].guest = rooms[r].guest
                ELSE rooms'[r].host = rooms[r].host]_vars

\* The guest has just reported its finish with a score other than the one
\* stored for the host, who has not finished.
C32_Witness ==
    /\ lastEvent.type = "gameFinished"
    /\ lastEvent.roomId \in DOMAIN rooms
    /\ IsGuest(rooms[lastEvent.roomId], lastEvent.from)
    /\ ~IsHost(rooms[lastEvent.roomId], lastEvent.from)
    /\ rooms[lastEvent.roomId].guest.finished
    /\ ~rooms[lastEvent.roomId].host.finished
    /\ rooms[lastEvent.roomId].host.score # lastEvent.score

(***************************************************************************)
(* C33.  A duplicate gameFinished is an idempotent overwrite: processing   *)
(* the same gameFinished of the same seat twice in a row leaves the stored *)
(* score, time, name and finished flag of both seats exactly as after      *)
(* processing it once.  In the state after a gameFinished, what the        *)
(* handler stores for the same event, at any later reading of the clock,   *)
(* is compared with what is stored.                                        *)
(***************************************************************************)
\* The score, time, name and finished flag stored for a seat.
StoredReport(player) ==
    IF player = Null THEN Null
    ELSE [score |-> player.score, time |-> player.time,
          teamName |-> player.teamName, finished |-> player.finished]

StoredReports(room) == <<StoredReport(room.host), StoredReport(room.guest)>>

C33_DuplicateFinishIdempotent ==
    (lastEvent.type = "gameFinished" /\ lastEvent.roomId \in DOMAIN rooms) =>
        LET once == rooms[lastEvent.roomId]
        IN  \A finishTime \in now..MaxClock :
               StoredReports(RecordFinish(once, lastEvent.from, lastEvent.teamName,
                                          lastEvent.score, lastEvent.time, finishTime))
                  = StoredReports(once)

\* The host has just reported a finish with a score above 0 after the clock
\* moved.
C33_Witness ==
    /\ lastEvent.type = "gameFinished"
    /\ lastEvent.roomId \in DOMAIN rooms
    /\ IsHost(rooms[lastEvent.roomId], lastEvent.from)
    /\ lastEvent.score > 0
    /\ rooms[lastEvent.roomId].host.finishTimestamp = now
    /\ 0 < now

Waiting(r, w) ==
    /\ MatchRunning(r)
    /\ SeatIds(rooms[r]) \subseteq connected
    /\ SeatOf(rooms[r], w) # Null
    /\ SeatOf(rooms[r], w).finished
    /\ ~OtherSeat(rooms[r], w).finished

\* The step handles the gameFinished on room r, or the disconnect, of the seat
\* of r that connection w waits for.
OtherSeatActs(r, w) ==
    /\ lastEvent'.from = OtherSeat(rooms[r], w).id
    /\ \/ lastEvent'.type = "disconnect"
       \/ lastEvent'.type = "gameFinished" /\ lastEvent'.roomId = r

C35_WaitingSeatServed ==
    [][\A r \in DOMAIN rooms : \A w \in Conns \cup {4} :
          (Waiting(r, w) /\ OtherSeatActs(r, w))
          => \E i \in 1..Len(out') :
                /\ out'[i].ev \in {"gameResult", "hostDisconnected", "opponentLeft"}
                /\ w \in out'[i].to]_vars

(***************************************************************************)
(* C36.  On a successful joinRoom the joiner receives roomJoined before it *)
(* receives opponentJoined: every opponentJoined addressed to the joiner   *)
(* comes after the roomJoined, and the lobby of the joiner, fed the        *)
(* emissions in order, shows the waiting panel, then the ready panel, and  *)
(* never the waiting panel again once it has shown the ready panel.        *)
(***************************************************************************)
\* The last handler accepted a joinRoom.
JoinAccepted ==
    /\ lastEvent.type = "joinRoom"
    /\ Sent(out, "roomJoined") # {}

\* The lobby of the joiner after the first k emissions of the handler.
JoinerView(k) == ViewAfter(LobbyView, lastEvent.from, out, k)

C36_RoomJoinedBeforeOpponentJoined ==
    JoinAccepted =>
        /\ \A i \in Sent(out, "roomJoined") : lastEvent.from \in out[i].to
        /\ \E j \in Sent(out, "opponentJoined") : lastEvent.from \in out[j].to
        /\ \A i \in Sent(out, "roomJoined"), j \in Sent(out, "opponentJoined") :
              lastEvent.from \in out[j].to => i < j
        /\ \A k \in 0..Len(out), m \in 0..Len(out) :
              (k <= m /\ "multiplayer-ready" \in JoinerView(k))
                  => "multiplayer-waiting" \notin JoinerView(m)
        /\ \E k \in 0..Len(out) : "multiplayer-waiting" \in JoinerView(k)
        /\ JoinerView(Len(out)) = {"multiplayer-create", "multiplayer-ready"}

\* A connection other than the host has just taken the guest seat and was sent
\* the three emissions of the handler.
C36_Witness ==
    /\ JoinAccepted
    /\ Len(out) = 3
    /\ rooms[lastEvent.roomId].guest # Null
    /\ rooms[lastEvent.roomId].guest.id = lastEvent.from
    /\ rooms[lastEvent.roomId].host.id # lastEvent.from
    /\ rooms[lastEvent.roomId].host.id \in connected

(***************************************************************************)
(* C37.  The client emits gameFinished at most once per game: between one  *)
(* start of a multiplayer game and the next, the calls of endGame send at  *)
(* most one gameFinished event.  Fails: the restart button clears          *)
(* state.finished while an endGame timeout of the game is still pending.   *)
(***************************************************************************)
C37_GameFinishedOncePerGame == game.started => game.gameFinished <= 1

=============================================================================
